---- MODULE Spec2Model ----
(***************************************************************************)
(* Model of src/src/datafun_06_eda/eda_conover.py: the one-shot EDA        *)
(* pipeline main() over Housing.csv.                                       *)
(*                                                                         *)
(* Cells are kept in their textual form (a CSV is text).  The in-memory    *)
(* missing marker is NaN; a column has a numeric dtype when the table has  *)
(* rows and every non-missing cell is a numeral, and Num gives the value   *)
(* of a numeral.  Rationals are kept exact as [nan, num, den] records;     *)
(* a correlation r is kept as [nan, num, den2] with r = num / sqrt(den2).  *)
(* describe()'s quartiles are not modelled.                                *)
(***************************************************************************)
EXTENDS Integers, Sequences, FiniteSets, TLC

VARIABLES pc, file, heap, df, df_clean, data_dictionary, dup_count,
          stats_overall, stats_by_group, corr, err, calls

vars == <<pc, file, heap, df, df_clean, data_dictionary, dup_count,
          stats_overall, stats_by_group, corr, err, calls>>

(*************************** program constants *****************************)

NUMERIC_COLS == <<"price", "area", "bedrooms", "bathrooms", "stories">>

GROUP_COL == "furnishingstatus"

ExpectedCols ==
    <<"price", "area", "bedrooms", "bathrooms", "stories", "mainroad",
      "guestroom", "basement", "hotwaterheating", "airconditioning",
      "parking", "prefarea", "furnishingstatus">>

(******************************* bounds ************************************)

MaxRows == 3

MaxRowsShort == 1

MaxRowsSmall == 2

(***************************** helpers *************************************)

Range(s) == {s[i] : i \in 1..Len(s)}

RECURSIVE SeqsUpTo(_, _)
SeqsUpTo(S, n) ==
    IF n = 0 THEN {<<>>}
    ELSE LET prev == SeqsUpTo(S, n - 1)
         IN  prev \cup {Append(s, x) : s \in {q \in prev : Len(q) = n - 1}, x \in S}

RECURSIVE SumSeq(_)
SumSeq(s) == IF s = <<>> THEN 0 ELSE Head(s) + SumSeq(Tail(s))

SetMin(S) == CHOOSE x \in S : \A y \in S : x <= y

SetMax(S) == CHOOSE x \in S : \A y \in S : x >= y

NaN == "NaN"

\* pandas' default na_values that the input pool uses
NaStrings == {"", "NA", "NaN", "null"}

Num == [s \in {"0", "1", "2", "3"} |->
          CASE s = "0" -> 0 [] s = "1" -> 1 [] s = "2" -> 2 [] s = "3" -> 3]

IsNumeral(s) == s \in DOMAIN Num

IsNa(v) == v = NaN

NaNF == [nan |-> TRUE, num |-> 0, den |-> 1]

Frac(n, d) == IF d = 0 THEN NaNF ELSE [nan |-> FALSE, num |-> n, den |-> d]

(************************ tables (pandas.DataFrame) ************************)

\* a table: columns is the column index, dtypes the dtype of each column,
\* rows a sequence of functions from column name to cell
NRows(t) == Len(t.rows)

HasCols(t, cs) == Range(cs) \subseteq Range(t.columns)

\* the dtype of a column is fixed when the file is parsed and kept by
\* row filtering
IsNumericDtype(t, c) == t.dtypes[c] = "numeric"

Dtype(t, c) == t.dtypes[c]

IsNaCount(t, c) == Cardinality({i \in 1..NRows(t) : IsNa(t.rows[i][c])})

\* a rounding that drops the remainder
RoundHalfEven_floor(n, d) == n \div d

\* numpy round: half to even, n / d to the nearest integer
RoundHalfEven(n, d) ==
    LET q == n \div d
        r == n % d
    IN  IF 2 * r < d THEN q
        ELSE IF 2 * r > d THEN q + 1
        ELSE IF q % 2 = 0 THEN q ELSE q + 1

\* (df.isna().mean() * 100).round(2) for one column, in hundredths of a
\* percent; the mean of an empty column is NaN
MissingPct(t, c) ==
    IF NRows(t) = 0 THEN NaNF
    ELSE Frac(RoundHalfEven(IsNaCount(t, c) * 10000, NRows(t)), 100)

DataDictionary(t) ==
    [i \in 1..Len(t.columns) |->
        [column        |-> t.columns[i],
         dtype         |-> Dtype(t, t.columns[i]),
         missing_count |-> IsNaCount(t, t.columns[i]),
         missing_pct   |-> MissingPct(t, t.columns[i])]]

\* keep=False: every row that has a twin is marked
Duplicated_keepnone(t) ==
    [i \in 1..NRows(t) |-> \E j \in 1..NRows(t) : j # i /\ t.rows[j] = t.rows[i]]

\* df.duplicated(): keep="first", missing cells compare equal
Duplicated(t) ==
    [i \in 1..NRows(t) |-> \E j \in 1..(i - 1) : t.rows[j] = t.rows[i]]

DupCount(t) == Cardinality({i \in 1..NRows(t) : Duplicated(t)[i]})

\* a drop on every column instead of the subset
DropNa_anywhere(t, subset) ==
    [columns |-> t.columns,
     dtypes  |-> t.dtypes,
     rows    |-> SelectSeq(t.rows,
                    LAMBDA r : \A k \in 1..Len(t.columns) : ~IsNa(r[t.columns[k]]))]

\* df.dropna(subset=...): how="any" over the subset only
DropNa(t, subset) ==
    [columns |-> t.columns,
     dtypes  |-> t.dtypes,
     rows    |-> SelectSeq(t.rows,
                    LAMBDA r : \A k \in 1..Len(subset) : ~IsNa(r[subset[k]]))]

\* the non-missing values of a numeric column, as integers
Values(t, c) ==
    LET kept == SelectSeq(t.rows, LAMBDA r : ~IsNa(r[c]))
    IN  [i \in 1..Len(kept) |-> Num[kept[i][c]]]

\* n * sum((x - mean)^2), an integer
SumSqDev(xs) ==
    Len(xs) * SumSeq([i \in 1..Len(xs) |-> xs[i] * xs[i]]) - SumSeq(xs) * SumSeq(xs)

\* a count of distinct values instead of values
NumStats_nunique(xs) ==
    LET n == Len(xs) IN
    [count |-> Cardinality(Range(xs)),
     mean  |-> Frac(SumSeq(xs), n),
     var   |-> IF n < 2 THEN NaNF ELSE Frac(SumSqDev(xs), n * (n - 1)),
     min   |-> IF n = 0 THEN NaNF ELSE Frac(SetMin(Range(xs)), 1),
     max   |-> IF n = 0 THEN NaNF ELSE Frac(SetMax(Range(xs)), 1)]

\* count / mean / std / min / max of one numeric column (std as its square)
NumStats(xs) ==
    LET n == Len(xs) IN
    [count |-> n,
     mean  |-> Frac(SumSeq(xs), n),
     var   |-> IF n < 2 THEN NaNF ELSE Frac(SumSqDev(xs), n * (n - 1)),
     min   |-> IF n = 0 THEN NaNF ELSE Frac(SetMin(Range(xs)), 1),
     max   |-> IF n = 0 THEN NaNF ELSE Frac(SetMax(Range(xs)), 1)]

\* count / unique of an object column
ObjStats(t, c) ==
    LET kept == {i \in 1..NRows(t) : ~IsNa(t.rows[i][c])} IN
    [count  |-> Cardinality(kept),
     unique |-> Cardinality({t.rows[i][c] : i \in kept})]

\* df[cols].describe().T: a mixed frame describes its numeric columns only
Describe(t, cols) ==
    LET numeric == {c \in Range(cols) : IsNumericDtype(t, c)} IN
    IF numeric # {}
    THEN [c \in numeric |-> NumStats(Values(t, c))]
    ELSE [c \in Range(cols) |-> ObjStats(t, c)]

\* the rows of one group
GroupRows(t, g) ==
    [columns |-> t.columns,
     dtypes  |-> t.dtypes,
     rows    |-> SelectSeq(t.rows, LAMBDA r : r[GROUP_COL] = g)]

\* a declared category set instead of the observed values
GroupKeys_declared(t) == {"furnished", "semi-furnished", "unfurnished"}

\* groupby(GROUP_COL): the observed keys, missing keys left out
GroupKeys(t) == {t.rows[i][GROUP_COL] : i \in 1..NRows(t)} \ {NaN}

\* groupby(GROUP_COL)[NUMERIC_COLS].agg(["count","mean","std","min","max"])
GroupAgg(t) ==
    [g \in GroupKeys(t) |->
        [c \in Range(NUMERIC_COLS) |-> NumStats(Values(GroupRows(t, g), c))]]

\* the rows on which both columns are present (pairwise complete)
PairRows(t, a, b) == SelectSeq(t.rows, LAMBDA r : ~IsNa(r[a]) /\ ~IsNa(r[b]))

\* a product moment that is not centred
CoMoment_raw(xs, ys) == Len(xs) * SumSeq([i \in 1..Len(xs) |-> xs[i] * ys[i]])

\* n * sum((x - mean x) * (y - mean y)), an integer
CoMoment(xs, ys) ==
    Len(xs) * SumSeq([i \in 1..Len(xs) |-> xs[i] * ys[i]]) - SumSeq(xs) * SumSeq(ys)

\* Pearson r of two columns as num / sqrt(den2); NaN when the divisor is 0
CorrPair(t, a, b) ==
    LET rs  == PairRows(t, a, b)
        xs  == [i \in 1..Len(rs) |-> Num[rs[i][a]]]
        ys  == [i \in 1..Len(rs) |-> Num[rs[i][b]]]
        sxx == CoMoment(xs, xs)
        syy == CoMoment(ys, ys)
    IN  IF sxx * syy = 0 THEN [nan |-> TRUE, num |-> 0, den2 |-> 1]
        ELSE [nan |-> FALSE, num |-> CoMoment(xs, ys), den2 |-> sxx * syy]

\* df[cols].corr()
Corr(t, cols) == [a \in Range(cols), b \in Range(cols) |-> CorrPair(t, a, b)]

(***************************** Housing.csv *********************************)

\* pd.read_csv: NA strings become NaN, each column gets its dtype
ParseCell(s) == IF s \in NaStrings THEN NaN ELSE s

ReadCsv(f) ==
    LET rows == [i \in 1..Len(f.rows) |->
                    [c \in Range(f.header) |-> ParseCell(f.rows[i][c])]]
    IN  [columns |-> f.header,
         dtypes  |-> [c \in Range(f.header) |->
                        IF /\ Len(rows) > 0
                           /\ \A i \in 1..Len(rows) :
                                 IsNa(rows[i][c]) \/ IsNumeral(rows[i][c])
                        THEN "numeric" ELSE "object"],
         rows    |-> rows]

ReadCsvError(f) ==
    CASE f.kind = "absent" -> "FileNotFoundError"
      [] f.kind = "empty"  -> "EmptyDataError"
      [] OTHER             -> "none"

\* input lines: prices and areas vary, bedrooms follow price, stories run
\* against area, bathrooms are constant
GoodLine(p, a) ==
    [price |-> p, area |-> a, bedrooms |-> p, bathrooms |-> "1",
     stories |-> IF a = "1" THEN "2" ELSE "1",
     mainroad |-> "yes", guestroom |-> "no", basement |-> "no",
     hotwaterheating |-> "no", airconditioning |-> "yes", parking |-> "0",
     prefarea |-> "no", furnishingstatus |-> "furnished"]

GoodLines == {GoodLine(p, a) : p \in {"1", "2"}, a \in {"1", "2"}}

KeyCols == NUMERIC_COLS \o <<GROUP_COL>>

\* lines with odd cells: an empty field, an NA text, a non-numeral
OddLine == [GoodLine("1", "1") EXCEPT !.furnishingstatus = "unfurnished"]

OddLines ==
    {[OddLine EXCEPT ![c] = ""] : c \in Range(KeyCols)}
    \cup {[OddLine EXCEPT !.parking = "NA"],
          [OddLine EXCEPT !.area = "abc"],
          [OddLine EXCEPT !.area = "abc", !.price = ""]}

\* input lines for the quality and cleaning stages
QualityLines == {GoodLine("2", "1")} \cup OddLines

\* input lines for the statistics and the correlation matrix
StatsLines ==
    GoodLines
    \cup {[GoodLine("3", "2") EXCEPT !.furnishingstatus = g] :
             g \in {"Furnished", "furnished "}}
    \cup {[OddLine EXCEPT !.area = ""], [GoodLine("3", "1") EXCEPT !.bathrooms = "2"]}

Without(s, c) == SelectSeq(s, LAMBDA x : x # c)

Restrict(r, cs) == [c \in Range(cs) |-> r[c]]

\* the files main() may meet: none, a zero-byte file, a file with every
\* expected column and up to n lines of L, a file that lacks one expected
\* column
FilesUpTo(L, n) ==
    {[kind |-> "absent", header |-> <<>>, rows |-> <<>>],
     [kind |-> "empty", header |-> <<>>, rows |-> <<>>]}
    \cup {[kind |-> "csv", header |-> ExpectedCols, rows |-> ls] :
            ls \in SeqsUpTo(L, n)}
    \cup {[kind |-> "csv", header |-> Without(ExpectedCols, c),
           rows |-> [i \in 1..Len(ls) |-> Restrict(ls[i], Without(ExpectedCols, c))]] :
            c \in Range(ExpectedCols), ls \in SeqsUpTo(L, MaxRowsShort)}

(***************************** main() **************************************)

NoStats == [c \in {} |-> 0]

InitWith(F) ==
    /\ file \in F
    /\ pc = "start"
    /\ heap = <<>>
    /\ df = 0
    /\ df_clean = 0
    /\ data_dictionary = <<>>
    /\ dup_count = -1
    /\ stats_overall = NoStats
    /\ stats_by_group = NoStats
    /\ corr = NoStats
    /\ err = "none"
    /\ calls = <<>>

\* an exception that is caught and logged, the run going on
AfterRaise_swallow(next) == next

\* main() has no try/except: an exception raised by a stage leaves main
AfterRaise(next) == "failed"

Outcome(e, next) == IF e = "none" THEN next ELSE AfterRaise(next)

Call(fn, arg) == Append(calls, [fn |-> fn, arg |-> arg])

\* the arguments main() passes
InspectArg == df

DictionaryArg == df

QualityArg == df

CleanArg == df

\* the statistics computed on the loaded table
StatsArg_raw == df

StatsArg == df_clean

CorrArg == df_clean

PlotsArg == df_clean

\* df = load_data()
LoadData ==
    /\ pc = "start"
    /\ calls' = Call("load_data", 0)
    /\ err' = ReadCsvError(file)
    /\ pc' = Outcome(err', "loaded")
    /\ IF err' = "none"
       THEN /\ heap' = Append(heap, ReadCsv(file))
            /\ df' = Len(heap')
       ELSE UNCHANGED <<heap, df>>
    /\ UNCHANGED <<file, df_clean, data_dictionary, dup_count, stats_overall,
                   stats_by_group, corr>>

\* inspect_basic(df): head, columns, info and shape are only logged
InspectBasic ==
    /\ pc = "loaded"
    /\ calls' = Call("inspect_basic", InspectArg)
    /\ err' = "none"
    /\ pc' = Outcome(err', "inspected")
    /\ UNCHANGED <<file, heap, df, df_clean, data_dictionary, dup_count,
                   stats_overall, stats_by_group, corr>>

\* build_data_dictionary(df)
BuildDataDictionary ==
    /\ pc = "inspected"
    /\ calls' = Call("build_data_dictionary", DictionaryArg)
    /\ err' = "none"
    /\ pc' = Outcome(err', "dictionary")
    /\ data_dictionary' = DataDictionary(heap[DictionaryArg])
    /\ UNCHANGED <<file, heap, df, df_clean, dup_count, stats_overall,
                   stats_by_group, corr>>

\* a describe that skips the absent columns
CheckQualityError_lenient(t) == "none"

\* df[NUMERIC_COLS] raises KeyError when a listed column is absent
CheckQualityError(t) == IF HasCols(t, NUMERIC_COLS) THEN "none" ELSE "KeyError"

\* check_quality(df): dup_count is computed before df[NUMERIC_COLS]
CheckQuality ==
    /\ pc = "dictionary"
    /\ calls' = Call("check_quality", QualityArg)
    /\ dup_count' = DupCount(heap[QualityArg])
    /\ err' = CheckQualityError(heap[QualityArg])
    /\ pc' = Outcome(err', "quality")
    /\ UNCHANGED <<file, heap, df, df_clean, data_dictionary, stats_overall,
                   stats_by_group, corr>>

\* dropna(subset=...) raises KeyError when a subset column is absent
MakeCleanViewError(t) == IF HasCols(t, KeyCols) THEN "none" ELSE "KeyError"

\* dropna(inplace=True): the loaded table itself is filtered and returned
CleanViewRef_inplace(h, src) == src

\* .copy(): the cleaned view is a new object
CleanViewRef(h, src) == Len(h) + 1

Store(h, ref, t) == IF ref = Len(h) + 1 THEN Append(h, t) ELSE [h EXCEPT ![ref] = t]

\* df_clean = make_clean_view(df)
MakeCleanView ==
    /\ pc = "quality"
    /\ calls' = Call("make_clean_view", CleanArg)
    /\ err' = MakeCleanViewError(heap[CleanArg])
    /\ pc' = Outcome(err', "cleaned")
    /\ IF err' = "none"
       THEN /\ df_clean' = CleanViewRef(heap, CleanArg)
            /\ heap' = Store(heap, df_clean', DropNa(heap[CleanArg], KeyCols))
       ELSE UNCHANGED <<heap, df_clean>>
    /\ UNCHANGED <<file, df, data_dictionary, dup_count, stats_overall,
                   stats_by_group, corr>>

\* mean / std of an object column raise TypeError as soon as a group has rows
DescriptiveStatsError(t) ==
    IF ~HasCols(t, NUMERIC_COLS \o <<GROUP_COL>>) THEN "KeyError"
    ELSE IF NRows(t) > 0 /\ \E c \in Range(NUMERIC_COLS) : ~IsNumericDtype(t, c)
         THEN "TypeError"
         ELSE "none"

\* descriptive_stats(df_clean)
DescriptiveStats ==
    /\ pc = "cleaned"
    /\ calls' = Call("descriptive_stats", StatsArg)
    /\ err' = DescriptiveStatsError(heap[StatsArg])
    /\ pc' = Outcome(err', "stats")
    /\ IF err' = "none"
       THEN /\ stats_overall' = Describe(heap[StatsArg], NUMERIC_COLS)
            /\ stats_by_group' = GroupAgg(heap[StatsArg])
       ELSE UNCHANGED <<stats_overall, stats_by_group>>
    /\ UNCHANGED <<file, heap, df, df_clean, data_dictionary, dup_count, corr>>

\* corr() converts the frame to floats: ValueError on a non-numeric cell
CorrelationMatrixError(t) ==
    IF ~HasCols(t, NUMERIC_COLS) THEN "KeyError"
    ELSE IF \E c \in Range(NUMERIC_COLS), i \in 1..NRows(t) :
               ~IsNa(t.rows[i][c]) /\ ~IsNumeral(t.rows[i][c])
         THEN "ValueError"
         ELSE "none"

\* correlation_matrix(df_clean)
CorrelationMatrix ==
    /\ pc = "stats"
    /\ calls' = Call("correlation_matrix", CorrArg)
    /\ err' = CorrelationMatrixError(heap[CorrArg])
    /\ pc' = Outcome(err', "corr")
    /\ IF err' = "none"
       THEN corr' = Corr(heap[CorrArg], NUMERIC_COLS)
       ELSE UNCHANGED corr
    /\ UNCHANGED <<file, heap, df, df_clean, data_dictionary, dup_count,
                   stats_overall, stats_by_group>>

\* seaborn looks up area, price and GROUP_COL in the frame it is given
MakePlotsError(t) ==
    IF HasCols(t, <<"area", "price", GROUP_COL>>) THEN "none" ELSE "ValueError"

\* make_plots(df_clean): both charts are shown, nothing is stored
MakePlots ==
    /\ pc = "corr"
    /\ calls' = Call("make_plots", PlotsArg)
    /\ err' = MakePlotsError(heap[PlotsArg])
    /\ pc' = Outcome(err', "plots")
    /\ UNCHANGED <<file, heap, df, df_clean, data_dictionary, dup_count,
                   stats_overall, stats_by_group, corr>>

\* LOG.info("EDA workflow complete")
Complete ==
    /\ pc = "plots"
    /\ pc' = "complete"
    /\ UNCHANGED <<file, heap, df, df_clean, data_dictionary, dup_count,
                   stats_overall, stats_by_group, corr, err, calls>>

Next ==
    \/ LoadData
    \/ InspectBasic
    \/ BuildDataDictionary
    \/ CheckQuality
    \/ MakeCleanView
    \/ DescriptiveStats
    \/ CorrelationMatrix
    \/ MakePlots
    \/ Complete

Init == InitWith(FilesUpTo(QualityLines, MaxRows))

Spec == Init /\ [][Next]_vars

\* the same program over the files of StatsLines
InitStats == InitWith(FilesUpTo(StatsLines, MaxRows))

SpecStats == InitStats /\ [][Next]_vars

\* the same program over the shorter files
InitSmall == InitWith(FilesUpTo(QualityLines, MaxRowsSmall))

SpecSmall == InitSmall /\ [][Next]_vars

TypeOK ==
    /\ pc \in {"start", "loaded", "inspected", "dictionary", "quality", "cleaned",
               "stats", "corr", "plots", "complete", "failed"}
    /\ df \in 0..Len(heap)
    /\ df_clean \in 0..Len(heap)

(***************************** properties **********************************)

Called(fn) == \E i \in 1..Len(calls) : calls[i].fn = fn

\* fn was called and returned normally
Returned(fn) ==
    \E i \in 1..Len(calls) : calls[i].fn = fn /\ (i < Len(calls) \/ err = "none")

Loaded == df # 0

Raw == heap[df]

Clean == heap[df_clean]

SixCols == {"price", "area", "bedrooms", "bathrooms", "stories", "furnishingstatus"}

FiveCols == {"price", "area", "bedrooms", "bathrooms", "stories"}

Complete6(r) == \A c \in SixCols : r[c] # "NaN"

KeptIdx(t) == {i \in 1..Len(t.rows) : Complete6(t.rows[i])}

\* s is the subsequence of t at the indices K, in order
IsSelection(s, t, K) ==
    /\ Len(s) = Cardinality(K)
    /\ \E f \in [1..Len(s) -> K] :
          /\ \A i, j \in 1..Len(s) : i < j => f[i] < f[j]
          /\ \A i \in 1..Len(s) : s[i] = t[f[i]]

\* C1: make_clean_view returns exactly the rows of its input, in order, in
\* which price, area, bedrooms, bathrooms, stories and furnishingstatus are
\* all present; a missing cell elsewhere drops nothing; the output is never
\* longer than the input.
C1_CleanViewKeepsCompleteRows ==
    Returned("make_clean_view") =>
        /\ Clean.columns = Raw.columns
        /\ IsSelection(Clean.rows, Raw.rows, KeptIdx(Raw))
        /\ Len(Clean.rows) <= Len(Raw.rows)

C1_Witness ==
    /\ Returned("make_clean_view")
    /\ Len(Clean.rows) < Len(Raw.rows)
    /\ \E i \in 1..Len(Clean.rows) : Clean.rows[i]["parking"] = "NaN"

\* C2: the loaded table is never changed: at every point after load_data it
\* is the table read from the file, and the cleaned view is another object.
C2_OriginalNeverMutated ==
    /\ Loaded => Raw = ReadCsv(file)
    /\ df_clean # 0 => df_clean # df

C2_Witness ==
    /\ Returned("correlation_matrix")
    /\ Len(Clean.rows) < Len(Raw.rows)

NaCells(t, c) == {i \in 1..Len(t.rows) : t.rows[i][c] = "NaN"}

\* p is n / d rounded to the nearest integer
IsRounded(p, n, d) ==
    LET diff == p * d - n
    IN  2 * (IF diff < 0 THEN -diff ELSE diff) <= d

DictionaryRowsOk(requireNumber) ==
    /\ Len(data_dictionary) = Len(Raw.columns)
    /\ \A i \in 1..Len(data_dictionary) :
          LET e == data_dictionary[i]
              c == Raw.columns[i]
          IN  /\ e.column = c
              /\ e.missing_count = Cardinality(NaCells(Raw, c))
              /\ IF Len(Raw.rows) > 0 \/ requireNumber
                 THEN /\ ~e.missing_pct.nan
                      /\ e.missing_pct.den = 100
                      /\ IsRounded(e.missing_pct.num, e.missing_count * 10000,
                                   Len(Raw.rows))
                 ELSE e.missing_pct.nan

\* C3 as stated: for any table, one row per column in column order, with
\* missing_count the number of missing cells and missing_pct the number
\* missing_count / row_count * 100 rounded to 2 decimals.
C3_Original == Returned("build_data_dictionary") => DictionaryRowsOk(TRUE)

\* C3: one row per column in column order, missing_count the number of
\* missing cells; for a table with rows missing_pct is missing_count /
\* row_count * 100 rounded to 2 decimals, for a table without rows it is NaN.
C3_DataDictionary == Returned("build_data_dictionary") => DictionaryRowsOk(FALSE)

C3_Witness ==
    /\ Returned("build_data_dictionary")
    /\ Len(Raw.rows) = 3
    /\ \E i \in 1..Len(data_dictionary) :
          /\ data_dictionary[i].missing_count = 2
          /\ data_dictionary[i].missing_pct.num = 6667

Observed(t) == {t.rows[i]["furnishingstatus"] : i \in 1..Len(t.rows)}

\* C4: the grouped table has one row per value of furnishingstatus that
\* occurs in the cleaned view, and no other row; values are compared as
\* they are written.
C4_OneGroupPerObservedValue ==
    Returned("descriptive_stats") =>
        /\ DOMAIN stats_by_group = Observed(Clean)
        /\ Cardinality(DOMAIN stats_by_group) = Cardinality(Observed(Clean))

C4_Witness ==
    /\ Returned("descriptive_stats")
    /\ {"furnished", "Furnished"} \subseteq DOMAIN stats_by_group
    /\ "unfurnished" \in Observed(Raw)
    /\ "unfurnished" \notin DOMAIN stats_by_group

Terminal == ~ENABLED Next

LastCall == calls[Len(calls)].fn

\* C5: the run is in the failure state exactly when a stage has raised, and
\* the run has ended (no stage can start) exactly in the success and the
\* failure state: after an exception no later stage is started, nothing is
\* retried, and the success state is not reached.
C5_FailFast ==
    /\ pc = "failed" <=> err # "none"
    /\ Terminal <=> pc \in {"complete", "failed"}

C5_Witness ==
    /\ pc = "failed"
    /\ err = "TypeError"
    /\ LastCall = "descriptive_stats"
    /\ ~Called("correlation_matrix")

Expected13 ==
    {"price", "area", "bedrooms", "bathrooms", "stories", "mainroad", "guestroom",
     "basement", "hotwaterheating", "airconditioning", "parking", "prefarea",
     "furnishingstatus"}

Present == {Raw.columns[i] : i \in 1..Len(Raw.columns)}

\* C6 as stated: when the file lacks any of the thirteen expected columns,
\* load_data succeeds and the run does not complete.
C6_Original == Loaded /\ Expected13 \ Present # {} => pc # "complete"

\* C6: when the file lacks one of price, area, bedrooms, bathrooms, stories
\* or furnishingstatus, load_data succeeds and the run fails with a KeyError,
\* in check_quality for a numeric column and in make_clean_view for
\* furnishingstatus; the absence of any other expected column fails nothing.
C6_MissingKeyColumnFails ==
    /\ Loaded /\ FiveCols \ Present # {} =>
          /\ pc \in {"loaded", "inspected", "dictionary", "failed"}
          /\ pc = "failed" => err = "KeyError" /\ LastCall = "check_quality"
    /\ Loaded /\ FiveCols \subseteq Present /\ "furnishingstatus" \notin Present =>
          /\ pc \in {"loaded", "inspected", "dictionary", "quality", "failed"}
          /\ pc = "failed" => err = "KeyError" /\ LastCall = "make_clean_view"
    /\ Loaded /\ SixCols \subseteq Present => err # "KeyError"

C6_Witness ==
    /\ pc = "failed"
    /\ err = "KeyError"
    /\ "bedrooms" \notin Present
    /\ Len(Raw.rows) > 0

DistinctRows(t) == {t.rows[i] : i \in 1..Len(t.rows)}

\* C7: the duplicate count is the number of rows minus the number of
\* distinct rows, rows being compared over all columns.
C7_DuplicateCount ==
    Called("check_quality") =>
        dup_count = Len(Raw.rows) - Cardinality(DistinctRows(Raw))

C7_Witness ==
    /\ Returned("check_quality")
    /\ dup_count = 1
    /\ Len(Raw.rows) = 3
    /\ \E i \in 1..3 : Raw.rows[i]["parking"] = "NaN" /\ Raw.rows[i] = Raw.rows[1] /\ i > 1

RowsOfGroup(t, g) == {i \in 1..Len(t.rows) : t.rows[i]["furnishingstatus"] = g}

RECURSIVE SumOver(_, _)
SumOver(f, S) ==
    IF S = {} THEN 0
    ELSE LET x == CHOOSE y \in S : TRUE IN f[x] + SumOver(f, S \ {x})

GroupCountsOk ==
    /\ \A g \in DOMAIN stats_by_group : \A c \in FiveCols :
          stats_by_group[g][c].count = Cardinality(RowsOfGroup(Clean, g))
    /\ \A c \in FiveCols :
          SumOver([g \in DOMAIN stats_by_group |-> stats_by_group[g][c].count],
                  DOMAIN stats_by_group) = Len(Clean.rows)

\* C8 as stated: for every cleaned view the overall count of each of the
\* five columns is the number of rows of the view, and every per-group
\* count is the number of rows of the group.
C8_Original ==
    Returned("descriptive_stats") =>
        /\ \A c \in FiveCols :
              c \in DOMAIN stats_overall /\ stats_overall[c].count = Len(Clean.rows)
        /\ GroupCountsOk

\* C8: every count of the overall table is the number of rows of the cleaned
\* view, and the table has a row for each of the five columns unless the view
\* is empty and holds a column that was read as text; every per-group count
\* is the number of rows of the group, so the group counts sum to the number
\* of rows of the view.
C8_CountsAgree ==
    Returned("descriptive_stats") =>
        /\ DOMAIN stats_overall \subseteq FiveCols
        /\ DOMAIN stats_overall # {}
        /\ \A c \in DOMAIN stats_overall : stats_overall[c].count = Len(Clean.rows)
        /\ (Len(Clean.rows) > 0 \/ \A c \in FiveCols : Clean.dtypes[c] = "numeric")
              => DOMAIN stats_overall = FiveCols
        /\ GroupCountsOk

C8_Witness ==
    /\ Returned("descriptive_stats")
    /\ Len(Raw.rows) = 3
    /\ \E i \in 1..3 : Raw.rows[i]["area"] = "NaN"
    /\ "area" \in DOMAIN stats_overall
    /\ stats_overall["area"].count = 2
    /\ Cardinality(DOMAIN stats_by_group) = 2

ColumnValues(t, c) == {t.rows[i][c] : i \in 1..Len(t.rows)}

Degenerate(t, c) == Cardinality(ColumnValues(t, c)) <= 1

CorrShapeOk ==
    /\ DOMAIN corr = FiveCols \X FiveCols
    /\ \A a, b \in FiveCols : corr[a, b] = corr[b, a]

StageOrder ==
    <<"load_data", "inspect_basic", "build_data_dictionary", "check_quality",
      "make_clean_view", "descriptive_stats", "correlation_matrix", "make_plots">>

\* C10: the stages are called once each in the order load_data,
\* inspect_basic, build_data_dictionary, check_quality, make_clean_view,
\* descriptive_stats, correlation_matrix, make_plots; the first four after
\* load_data are given the loaded table, the last three the cleaned view
\* returned by make_clean_view, never the loaded table; a complete run has
\* called all eight.
C10_LinearPipeline ==
    /\ Len(calls) <= Len(StageOrder)
    /\ \A i \in 1..Len(calls) :
          /\ calls[i].fn = StageOrder[i]
          /\ i = 1 => calls[i].arg = 0
          /\ i \in 2..5 => calls[i].arg = df /\ df # 0
          /\ i \in 6..8 => calls[i].arg = df_clean /\ df_clean # 0 /\ df_clean # df
    /\ pc = "complete" => Len(calls) = Len(StageOrder)

C10_Witness == pc = "complete" /\ Len(Clean.rows) < Len(Raw.rows)

====
